---------------------------- MODULE Spec2Model ----------------------------
(***************************************************************************)
(* Model of the generic-untaint-operator: NodeReconciler.Reconcile         *)
(* (internal/controller/node_controller.go), the store it reads and        *)
(* writes through client.Client, the work queue the controller runtime     *)
(* drives it from, and the external actors that create and change nodes    *)
(* and pods.                                                               *)
(***************************************************************************)
EXTENDS Integers, Sequences, FiniteSets, TLC

VARIABLES
    process,      \* main: where it stands, its settings, its exit status
    reconciler,   \* the NodeReconciler's TargetTaint and OwnedByNames
    nodes,        \* store: node name -> Node object
    pods,         \* store: pod id -> Pod object
    revision,     \* store: the resourceVersion of the latest node write
    pc,           \* per request: where its Reconcile invocation stands
    node,         \* per request: the invocation's local `node`
    result,       \* per request: what the last finished invocation returned
    writes,       \* per request: Update calls made by the current/last invocation
    rechecks,     \* per request: 30-second rechecks returned in a row (saturating)
    queue,        \* runtime: requests ready to be reconciled
    timers,       \* runtime: requests waiting for a delayed re-add
    soleReady     \* history: pods that were the only Ready one of several target
                  \* pods listed by an invocation that returned a recheck

vars == <<process, reconciler, nodes, pods, revision, pc, node, result, writes,
          rechecks, queue, timers, soleReady>>

---------------------------------------------------------------------------
(* Bounds of the model *)

\* longest taint list of a node in the initial stores of ReconcileSpec
MaxTaints == 3
\* external node writes (create, update, delete) in Spec
MaxRevision == 3
\* the recheck counter saturates here
MaxRechecks == 2
\* longest owner reference list of a pod in the initial stores of ShapeSpec
MaxOwners == 2
\* longest condition list of a pod in the initial stores of ShapeSpec
MaxConditions == 2

---------------------------------------------------------------------------
(* Configuration and the objects of the store *)

\* a delay of 30 minutes
RequeueAfterMinutes == 30 * 60

\* the delay Reconcile asks for when the gate is not satisfied, in seconds
RequeueAfterSeconds == 30

TargetTaint == "test-taint"
OwnedByNames == <<"test-daemonset-1", "test-daemonset-2">>

NodeNames == {"test-node", "other-node"}
PodIds == {"pod-1", "pod-2", "pod-other", "pod-far"}

Taint(k, v, e) == [Key |-> k, Value |-> v, Effect |-> e]
T1 == Taint("test-taint", "true", "NoSchedule")
T2 == Taint("test-taint", "", "NoExecute")
O1 == Taint("other-taint", "true", "NoSchedule")
O2 == Taint("third-taint", "x", "PreferNoSchedule")
TaintPool == {T1, T2, O1, O2}
\* the taint lists external actors give a node in Spec
NodeTaintChoices == {<<>>, <<T1>>, <<O1>>, <<O1, T1>>}
\* the node external actors create, and requests name, in Spec and ReconcileSpec
ClusterNodes == {"test-node"}
\* the pods external actors create in Spec
ClusterPods == {"pod-1", "pod-2"}
\* the pods of the initial stores of ReconcileSpec
StorePods == {"pod-1", "pod-2", "pod-other"}

\* all sequences over S of length at most k
SeqsUpTo(S, k) == UNION {[1..m -> S] : m \in 0..k}

NoNode == [exists |-> FALSE, taints |-> <<>>, resourceVersion |-> 0]
NewNode(ts, rv) == [exists |-> TRUE, taints |-> ts, resourceVersion |-> rv]

OwnerRefOf(apiVersion, kind, name, uid) ==
    [APIVersion |-> apiVersion, Kind |-> kind, Name |-> name, UID |-> uid]
OwnerRef(kind, name) == OwnerRefOf("apps/v1", kind, name, "test-uid")
Condition(type, status) == [Type |-> type, Status |-> status]
PodReadyTrue == Condition("Ready", "True")
ConditionChoices == {<<>>, <<PodReadyTrue>>}

\* the owner references of the pods of ShapeSpec: the first configured
\* daemonset, a workload of another kind, API group and UID with the same
\* name, and a workload with another name
OwnerPool == {OwnerRef("DaemonSet", "test-daemonset-1"),
              OwnerRefOf("batch/v1", "Job", "test-daemonset-1", "job-uid"),
              OwnerRef("DaemonSet", "other-daemonset")}
\* the conditions of the pods of ShapeSpec
ConditionPool == {PodReadyTrue, Condition("Ready", "False"),
                  Condition("Ready", "Unknown"),
                  Condition("ContainersReady", "True")}

NoPod == [exists |-> FALSE, namespace |-> "", nodeName |-> "",
          ownerReferences |-> <<>>, conditions |-> <<>>]
NewPod(nodeName, owners, conds) ==
    [exists |-> TRUE, namespace |-> "default", nodeName |-> nodeName,
     ownerReferences |-> owners, conditions |-> conds]

\* the pods external actors create: on the test node two owned by the two
\* configured daemonsets and one owned by another workload, and on the other
\* node one owned by the first configured daemonset
PodTemplate(p) ==
    CASE p = "pod-1" -> NewPod("test-node", <<OwnerRef("DaemonSet", "test-daemonset-1")>>, <<>>)
      [] p = "pod-2" -> NewPod("test-node", <<OwnerRef("DaemonSet", "test-daemonset-2")>>, <<>>)
      [] p = "pod-far" -> NewPod("other-node", <<OwnerRef("DaemonSet", "test-daemonset-1")>>, <<>>)
      [] OTHER       -> NewPod("test-node", <<OwnerRef("DaemonSet", "other-daemonset")>>, <<>>)

---------------------------------------------------------------------------
(* Results of Reconcile: (ctrl.Result, error) *)

ResultOf(after, err) == [RequeueAfter |-> after, err |-> err]
NoResult == ResultOf(0, "pending")
\* a no-op that asks for the recheck all the same
EmptyResultRechecked == ResultOf(RequeueAfterSeconds, "nil")
EmptyResult == ResultOf(0, "nil")
\* a recheck that asks for no requeue
RequeueNever == ResultOf(0, "nil")
\* line 119: the recheck
RequeueResult == ResultOf(RequeueAfterSeconds, "nil")
\* an error that is dropped: the empty Result and no error
ErrorDropped(what) == ResultOf(0, "nil")
\* an error returned together with the recheck delay
ErrorWithRecheck(what) == ResultOf(RequeueAfterSeconds, what)
\* lines 57 and 110: an error is returned with the empty Result
ErrorResult(what) == ResultOf(0, what)

\* an error filter that lets the not-found error through
KeepNotFound(err) == err

\* line 37: client.IgnoreNotFound turns the not-found error into nil and
\* returns every other error as it is
IgnoreNotFound(err) == IF err = "notfound" THEN "nil" ELSE err

---------------------------------------------------------------------------
(* The decision logic of Reconcile *)

\* a taint check that looks at no key
SkipTaintCheck(taints, key) == TRUE

\* a taint check that takes any taint for the target
HasAnyTaint(taints, key) == Len(taints) > 0

\* lines 41-47: is there a taint with the target key
HasTargetTaint(taints, key) ==
    \E i \in 1..Len(taints) : taints[i].Key = key

\* an ownership test that also asks for the kind of the configured workloads
IsTargetPodSameKind(pod, names) ==
    \E i \in 1..Len(pod.ownerReferences) :
        \E j \in 1..Len(names) :
            /\ pod.ownerReferences[i].Name = names[j]
            /\ pod.ownerReferences[i].Kind = "DaemonSet"

\* an ownership test that takes any owned pod for a target pod
IsTargetPodAnyOwner(pod, names) == Len(pod.ownerReferences) > 0

\* lines 65-77: does an owner reference carry a configured name
IsTargetPod(pod, names) ==
    \E i \in 1..Len(pod.ownerReferences) :
        \E j \in 1..Len(names) : pod.ownerReferences[i].Name = names[j]

\* a readiness test that takes any condition with status True for Ready
PodReadyAnyTrue(pod) ==
    \E i \in 1..Len(pod.conditions) : pod.conditions[i].Status = "True"

\* a readiness test that only looks for a Ready condition that is False
PodReadyUnlessFalse(pod) ==
    ~\E i \in 1..Len(pod.conditions) :
        pod.conditions[i].Type = "Ready" /\ pod.conditions[i].Status = "False"

\* lines 84-90: the Ready condition with status True
PodReady(pod) ==
    \E i \in 1..Len(pod.conditions) :
        pod.conditions[i].Type = "Ready" /\ pod.conditions[i].Status = "True"

\* a loop that stops at the first target pod, which decides allPodsReady
RECURSIVE CheckPodsFirstTarget(_, _, _, _)
CheckPodsFirstTarget(items, i, names, flags) ==
    IF i > Len(items) THEN flags
    ELSE IF ~IsTargetPod(items[i], names)
         THEN CheckPodsFirstTarget(items, i + 1, names, flags)
         ELSE [allPodsReady |-> PodReady(items[i]), hasTargetPods |-> TRUE]

\* a loop without the break: the last target pod decides allPodsReady
RECURSIVE CheckPodsLastWins(_, _, _, _)
CheckPodsLastWins(items, i, names, flags) ==
    IF i > Len(items) THEN flags
    ELSE IF ~IsTargetPod(items[i], names)
         THEN CheckPodsLastWins(items, i + 1, names, flags)
         ELSE CheckPodsLastWins(items, i + 1, names,
                                [allPodsReady |-> PodReady(items[i]),
                                 hasTargetPods |-> TRUE])

\* lines 61-97: the loop over pods.Items from item i on, with its flags
RECURSIVE CheckPods(_, _, _, _)
CheckPods(items, i, names, flags) ==
    IF i > Len(items) THEN flags
    ELSE IF ~IsTargetPod(items[i], names)
         THEN CheckPods(items, i + 1, names, flags)
         ELSE LET seen == [flags EXCEPT !.hasTargetPods = TRUE]
              IN  IF ~PodReady(items[i])
                  THEN [seen EXCEPT !.allPodsReady = FALSE]
                  ELSE CheckPods(items, i + 1, names, seen)

\* a removal branch that does not ask for a target pod
ShouldRemoveAllReady(flags) == flags.allPodsReady

\* line 99: the condition of the removal branch
ShouldRemove(flags) == flags.allPodsReady /\ flags.hasTargetPods

\* a removal that stops at the first entry with the target key
RECURSIVE NewTaintsFirstOnly(_, _)
NewTaintsFirstOnly(taints, key) ==
    IF taints = <<>> THEN <<>>
    ELSE IF Head(taints).Key = key THEN Tail(taints)
         ELSE <<Head(taints)>> \o NewTaintsFirstOnly(Tail(taints), key)

\* lines 101-106: the taints without the target key
NewTaints(taints, key) == SelectSeq(taints, LAMBDA t : t.Key # key)

\* an index that files every pod under every node name
IndexAllNodes(pod) == NodeNames

\* lines 129-135: the index entries of a pod: none for a pod that is not
\* scheduled, its node name otherwise
IndexFunc(pod) == IF pod.nodeName = "" THEN {} ELSE {pod.nodeName}

\* line 56: the pods the index returns for a node name, as a set
PodsOnNode(name) == {p \in PodIds : pods[p].exists /\ name \in IndexFunc(pods[p])}

\* the orders in which List may return a set of pods
Orders(S) ==
    {s \in [1..Cardinality(S) -> S] : \A i, j \in 1..Cardinality(S) : s[i] = s[j] => i = j}

Items(order) == [i \in 1..Len(order) |-> pods[order[i]]]

---------------------------------------------------------------------------
(* The store as the claims speak of it *)

Range(s) == {s[i] : i \in 1..Len(s)}

\* node n exists and carries a taint with the target key
Tainted(n) ==
    nodes[n].exists /\ \E t \in Range(nodes[n].taints) : t.Key = reconciler.TargetTaint

\* the pods scheduled on n that an owner reference ties to a configured name
TargetPodsOf(n) ==
    {p \in PodIds : /\ pods[p].exists
                    /\ pods[p].nodeName = n
                    /\ \E o \in Range(pods[p].ownerReferences) :
                          o.Name \in Range(reconciler.OwnedByNames)}

IsReady(p) == PodReadyTrue \in Range(pods[p].conditions)

\* the readiness gate: some target pod on n, and every target pod on n Ready
GateSatisfied(n) ==
    TargetPodsOf(n) # {} /\ \A p \in TargetPodsOf(n) : IsReady(p)

\* the target pod on n that alone is Ready while another target pod is not
SoleReadyOf(n) ==
    {p \in TargetPodsOf(n) :
        /\ IsReady(p)
        /\ TargetPodsOf(n) # {p}
        /\ \A q \in TargetPodsOf(n) \ {p} : ~IsReady(q)}

\* new is old with exactly the entries of the given key taken out, the
\* others in their old order
IsWithoutKey(new, old, key) ==
    LET kept == {i \in 1..Len(old) : old[i].Key # key}
    IN  /\ Len(new) = Cardinality(kept)
        /\ \A i \in kept :
              new[Cardinality({j \in kept : j <= i})] = old[i]

---------------------------------------------------------------------------
(* The initial states *)

Idle == [n \in NodeNames |-> "idle"]

\* a flag that was not given on the command line, and one that was
NotGiven == [given |-> FALSE, value |-> ""]
Given(v) == [given |-> TRUE, value |-> v]

\* lines 79-90: a flag's default is the environment variable; a flag given
\* on the command line, an empty one included, takes its place
FlagValue(flag, env) == IF flag.given THEN flag.value ELSE env

\* a check that lets an empty name list pass
OwnedByNamesNeverMissing(names) == FALSE

\* lines 99 and 104: a required setting is missing
TargetTaintMissing(taint) == taint = ""
OwnedByNamesMissing(names) == names = ""

\* the text of a name list: its names and the commas between them
Text(str) ==
    CASE str = "test-daemonset-1,test-daemonset-2"
             -> <<"test-daemonset-1", ",", "test-daemonset-2">>
      [] str = "test-daemonset-1" -> <<"test-daemonset-1">>
      [] str = "," -> <<",">>
      [] OTHER -> <<>>

\* line 125: strings.Split(text, ","): the pieces between the commas, empty
\* pieces included; the empty text gives one empty piece
RECURSIVE SplitFrom(_, _)
SplitFrom(text, piece) ==
    IF text = <<>> THEN <<piece>>
    ELSE IF Head(text) = "," THEN <<piece>> \o SplitFrom(Tail(text), "")
    ELSE SplitFrom(Tail(text), Head(text))

Split(str) == SplitFrom(Text(str), "")

\* main has started the manager with the settings of the tests
Serving ==
    [phase |-> "serving", exitStatus |-> 0, indexed |-> TRUE,
     targetTaint |-> TargetTaint,
     ownedByNames |-> "test-daemonset-1,test-daemonset-2"]

\* the controller before any request: nothing queued, nothing returned
InitController ==
    /\ process = Serving
    /\ reconciler = [TargetTaint |-> TargetTaint, OwnedByNames |-> OwnedByNames]
    /\ pc = Idle
    /\ node = [n \in NodeNames |-> NoNode]
    /\ result = [n \in NodeNames |-> NoResult]
    /\ writes = [n \in NodeNames |-> 0]
    /\ rechecks = [n \in NodeNames |-> 0]
    /\ timers = {}
    /\ soleReady = {}

\* Spec: an empty cluster; every node and pod is created by an external actor
Init ==
    /\ InitController
    /\ nodes = [n \in NodeNames |-> NoNode]
    /\ pods = [p \in PodIds |-> NoPod]
    /\ revision = 0
    /\ queue = {}

---------------------------------------------------------------------------
(* What the controller runtime does with a returned (Result, error) *)

Min(a, b) == IF a < b THEN a ELSE b

\* an error is retried (rate limited), a RequeueAfter is re-added after the
\* delay, an empty result forgets the request
Requeued(res) == res.err # "nil" \/ res.RequeueAfter > 0

\* a return that leaves its result where every invocation keeps its own
ReturnShared(n, res) ==
    /\ pc' = [pc EXCEPT ![n] = "idle"]
    /\ result' = [m \in NodeNames |-> res]
    /\ timers' = IF Requeued(res) THEN timers \cup {n} ELSE timers
    /\ rechecks' = [rechecks EXCEPT ![n] =
                      IF res = RequeueResult THEN Min(@ + 1, MaxRechecks)
                      ELSE IF res.err # "nil" THEN @ ELSE 0]

Return(n, res) ==
    /\ pc' = [pc EXCEPT ![n] = "idle"]
    /\ result' = [result EXCEPT ![n] = res]
    /\ timers' = IF Requeued(res) THEN timers \cup {n} ELSE timers
    /\ rechecks' = [rechecks EXCEPT ![n] =
                      IF res = RequeueResult THEN Min(@ + 1, MaxRechecks)
                      ELSE IF res.err # "nil" THEN @ ELSE 0]

---------------------------------------------------------------------------
(* Reconcile, one action per store call and the code that follows it *)

\* lines 33-52: r.Get, the taint check
ReconcileGet(n) ==
    /\ process.phase = "serving"
    /\ pc[n] = "idle"
    /\ n \in queue
    /\ queue' = queue \ {n}
    /\ writes' = [writes EXCEPT ![n] = 0]
    /\ UNCHANGED <<process, reconciler, nodes, pods, revision, soleReady>>
    /\ \/ /\ node' = [node EXCEPT ![n] = NoNode]
          /\ Return(n, ResultOf(0, IgnoreNotFound("get")))
       \/ /\ ~nodes[n].exists
          /\ node' = [node EXCEPT ![n] = NoNode]
          /\ Return(n, ResultOf(0, IgnoreNotFound("notfound")))
       \/ /\ nodes[n].exists
          /\ ~HasTargetTaint(nodes[n].taints, reconciler.TargetTaint)
          /\ node' = [node EXCEPT ![n] = NoNode]
          /\ Return(n, EmptyResult)
       \/ /\ nodes[n].exists
          /\ HasTargetTaint(nodes[n].taints, reconciler.TargetTaint)
          /\ node' = [node EXCEPT ![n] = nodes[n]]
          /\ pc' = [pc EXCEPT ![n] = "list"]
          /\ UNCHANGED <<result, timers, rechecks>>

\* lines 54-99 and 117-119: r.List, the loop over the pods, the decision
ReconcileList(n) ==
    /\ pc[n] = "list"
    /\ UNCHANGED <<process, reconciler, nodes, pods, revision, queue, writes>>
    /\ \/ /\ node' = [node EXCEPT ![n] = NoNode]
          /\ Return(n, ErrorResult("list"))
          /\ UNCHANGED soleReady
       \/ \E order \in Orders(PodsOnNode(n)) :
            LET flags == CheckPods(Items(order), 1, reconciler.OwnedByNames,
                                   [allPodsReady |-> TRUE, hasTargetPods |-> FALSE])
            IN  IF ShouldRemove(flags)
                THEN /\ node' = [node EXCEPT ![n].taints =
                                   NewTaints(@, reconciler.TargetTaint)]
                     /\ pc' = [pc EXCEPT ![n] = "update"]
                     /\ UNCHANGED <<result, timers, rechecks, soleReady>>
                ELSE /\ node' = [node EXCEPT ![n] = NoNode]
                     /\ Return(n, RequeueResult)
                     /\ soleReady' = soleReady \cup SoleReadyOf(n)

\* an update that overwrites every node with the object
UpdateStoreAll(n, obj) == [m \in NodeNames |-> obj]

\* line 109: r.Update stores the object under its own name
UpdateStore(n, obj) == [nodes EXCEPT ![n] = obj]

\* a store that accepts an update unless the object lost the target taint
UpdateAcceptedWhileTainted(n) == Tainted(n)

\* a store that accepts an update of any version of an existing object
UpdateAlwaysAccepted(n) == nodes[n].exists

\* the store accepts an update only of the latest version of an object
UpdateAccepted(n) ==
    nodes[n].exists /\ nodes[n].resourceVersion = node[n].resourceVersion

\* lines 107-115: r.Update of the node with the new taints, called once
ReconcileUpdate(n) ==
    /\ pc[n] = "update"
    /\ UNCHANGED <<process, reconciler, pods, queue, soleReady>>
    /\ node' = [node EXCEPT ![n] = NoNode]
    /\ writes' = [writes EXCEPT ![n] = @ + 1]
    /\ \/ /\ Return(n, ErrorResult("update"))
          /\ UNCHANGED <<nodes, revision>>
       \/ /\ ~UpdateAccepted(n)
          /\ Return(n, ErrorResult("update"))
          /\ UNCHANGED <<nodes, revision>>
       \/ /\ UpdateAccepted(n)
          /\ nodes' = UpdateStore(n, NewNode(node[n].taints, revision + 1))
          /\ revision' = revision + 1
          /\ Return(n, EmptyResult)

\* the delayed re-add of a request: the 30 seconds, or the retry delay, are over
TimerFire(n) ==
    /\ n \in timers
    /\ timers' = timers \ {n}
    /\ queue' = queue \cup {n}
    /\ UNCHANGED <<process, reconciler, nodes, pods, revision, pc, node, result, writes,
                   rechecks, soleReady>>

Controller == <<pc, node, result, writes, rechecks, timers, soleReady>>

---------------------------------------------------------------------------
(* External actors and the event filter *)

\* lines 142-155: which node events enqueue a request
CreateFunc == TRUE
DeleteFunc == FALSE
\* an update filter that lets every update event through
UpdateFuncPass == TRUE
UpdateFunc == FALSE
GenericFunc == FALSE

\* an event that passes the filter queues the request of its node; there
\* is a filter, and a queue, only while the manager runs
Enqueue(n, pass) ==
    IF pass /\ process.phase = "serving" THEN queue \cup {n} ELSE queue

\* the informer's first list: a create event for every node in the store
InitialList == {n \in NodeNames : nodes[n].exists /\ CreateFunc}

\* a node is created with some taints
CreateNode(n, ts) ==
    /\ ~nodes[n].exists
    /\ revision < MaxRevision
    /\ nodes' = [nodes EXCEPT ![n] = NewNode(ts, revision + 1)]
    /\ revision' = revision + 1
    /\ queue' = Enqueue(n, CreateFunc)
    /\ UNCHANGED <<process, reconciler, pods>>
    /\ UNCHANGED Controller

\* an external actor rewrites the taints of a node
UpdateNode(n, ts) ==
    /\ nodes[n].exists
    /\ nodes[n].taints # ts
    /\ revision < MaxRevision
    /\ nodes' = [nodes EXCEPT ![n] = NewNode(ts, revision + 1)]
    /\ revision' = revision + 1
    /\ queue' = Enqueue(n, UpdateFunc)
    /\ UNCHANGED <<process, reconciler, pods>>
    /\ UNCHANGED Controller

\* a node is deleted
DeleteNode(n) ==
    /\ nodes[n].exists
    /\ revision < MaxRevision
    /\ nodes' = [nodes EXCEPT ![n] = NoNode]
    /\ revision' = revision + 1
    /\ queue' = Enqueue(n, DeleteFunc)
    /\ UNCHANGED <<process, reconciler, pods>>
    /\ UNCHANGED Controller

\* a generic event for a node reaches the filter; it changes no object
GenericNode(n) ==
    /\ nodes[n].exists
    /\ queue' = Enqueue(n, GenericFunc)
    /\ UNCHANGED <<process, reconciler, nodes, pods, revision>>
    /\ UNCHANGED Controller

\* a pod is created, scheduled on its node, with no conditions yet
CreatePod(p) ==
    /\ ~pods[p].exists
    /\ pods' = [pods EXCEPT ![p] = PodTemplate(p)]
    /\ UNCHANGED <<process, reconciler, nodes, revision, queue>>
    /\ UNCHANGED Controller

\* the status of a pod is patched
SetPodConditions(p, conds) ==
    /\ pods[p].exists
    /\ pods[p].conditions # conds
    /\ pods' = [pods EXCEPT ![p].conditions = conds]
    /\ UNCHANGED <<process, reconciler, nodes, revision, queue>>
    /\ UNCHANGED Controller

\* a pod is deleted
DeletePod(p) ==
    /\ pods[p].exists
    /\ pods' = [pods EXCEPT ![p] = NoPod]
    /\ UNCHANGED <<process, reconciler, nodes, revision, queue>>
    /\ UNCHANGED Controller

---------------------------------------------------------------------------
(* The specifications *)

Next ==
    \/ \E n \in ClusterNodes : ReconcileGet(n)
    \/ \E n \in ClusterNodes : ReconcileList(n)
    \/ \E n \in ClusterNodes : ReconcileUpdate(n)
    \/ \E n \in ClusterNodes : TimerFire(n)
    \/ \E n \in ClusterNodes : \E ts \in NodeTaintChoices : CreateNode(n, ts)
    \/ \E n \in ClusterNodes : \E ts \in NodeTaintChoices : UpdateNode(n, ts)
    \/ \E n \in ClusterNodes : DeleteNode(n)
    \/ \E n \in ClusterNodes : GenericNode(n)
    \/ \E p \in ClusterPods : CreatePod(p)
    \/ \E p \in ClusterPods : \E conds \in ConditionChoices : SetPodConditions(p, conds)
    \/ \E p \in ClusterPods : DeletePod(p)

Spec == Init /\ [][Next]_vars

\* the store call of a step of the invocation for n did not fail: the
\* invocation goes on, or returns without an error
StepOK(n) == pc'[n] # "idle" \/ result'[n].err = "nil"

\* FairSpec: the runtime keeps working (a queued request is reconciled, a
\* started invocation goes on, a timer fires), and a store call that is
\* tried again and again succeeds in the end
Fairness ==
    \A n \in ClusterNodes :
        /\ WF_vars(TimerFire(n))
        /\ WF_vars(ReconcileGet(n))
        /\ WF_vars(ReconcileList(n))
        /\ WF_vars(ReconcileUpdate(n))
        /\ SF_vars(ReconcileGet(n) /\ StepOK(n))
        /\ SF_vars(ReconcileList(n) /\ StepOK(n))
        /\ SF_vars(ReconcileUpdate(n) /\ StepOK(n))

FairSpec == Spec /\ Fairness

\* a caller invokes Reconcile for a request directly, as the tests do
Request(n) ==
    /\ n \notin queue
    /\ queue' = queue \cup {n}
    /\ UNCHANGED <<process, reconciler, nodes, pods, revision>>
    /\ UNCHANGED Controller

\* ReconcileSpec: Reconcile alone against every store within the bounds;
\* no external actor changes the store between or during invocations
InitStore ==
    /\ nodes \in {[n \in NodeNames |-> IF n \in ClusterNodes THEN obj ELSE NoNode] :
                    obj \in {NoNode} \cup
                        {NewNode(ts, 1) : ts \in SeqsUpTo(TaintPool, MaxTaints)}}
    /\ pods \in {[p \in PodIds |-> IF p \in present
                                    THEN [PodTemplate(p) EXCEPT !.conditions = conds[p]]
                                    ELSE NoPod] :
                    present \in SUBSET StorePods,
                    conds \in [StorePods -> ConditionChoices]}
    /\ revision = 1

ReconcileInit ==
    /\ InitController
    /\ InitStore
    /\ queue = {}

ReconcileNext ==
    \/ \E n \in ClusterNodes : Request(n)
    \/ \E n \in ClusterNodes : ReconcileGet(n)
    \/ \E n \in ClusterNodes : ReconcileList(n)
    \/ \E n \in ClusterNodes : ReconcileUpdate(n)
    \/ \E n \in ClusterNodes : TimerFire(n)

ReconcileSpec == ReconcileInit /\ [][ReconcileNext]_vars

\* FleetSpec: Reconcile for two nodes side by side; each node carries taints,
\* the first configured daemonset has a pod on the test node and may have
\* one on the other node
FleetNodeChoices == {NewNode(<<T1>>, 1), NewNode(<<O1, T1>>, 1), NewNode(<<O1>>, 1)}
FleetPods == {"pod-1", "pod-far"}

FleetInit ==
    /\ InitController
    /\ nodes \in [NodeNames -> FleetNodeChoices]
    /\ pods \in {[p \in PodIds |-> IF p \in present
                                    THEN [PodTemplate(p) EXCEPT !.conditions = conds[p]]
                                    ELSE NoPod] :
                    present \in {{"pod-1"}, FleetPods},
                    conds \in [FleetPods -> ConditionChoices]}
    /\ revision = 1
    /\ queue = {}

FleetNext ==
    \/ \E n \in NodeNames : Request(n)
    \/ \E n \in NodeNames : ReconcileGet(n)
    \/ \E n \in NodeNames : ReconcileList(n)
    \/ \E n \in NodeNames : ReconcileUpdate(n)
    \/ \E n \in NodeNames : TimerFire(n)

FleetSpec == FleetInit /\ [][FleetNext]_vars

\* LocalitySpec: Reconcile for two tainted nodes; the pod of the first
\* daemonset on the test node is absent, not Ready or Ready; a pod of the
\* same daemonset is not scheduled or on the other node, and a pod of the
\* second daemonset is not scheduled or absent, each Ready or not
LocalityInit ==
    /\ InitController
    /\ nodes = [n \in NodeNames |-> NewNode(<<T1>>, 1)]
    /\ \E first \in {NoPod} \cup
                {[PodTemplate("pod-1") EXCEPT !.conditions = c] :
                    c \in ConditionChoices} :
       \E far \in {[PodTemplate("pod-far") EXCEPT !.nodeName = name,
                                                  !.conditions = c] :
                    name \in {"", "other-node"}, c \in ConditionChoices} :
       \E unscheduled \in {NoPod} \cup
                {[PodTemplate("pod-2") EXCEPT !.nodeName = "",
                                              !.conditions = c] :
                    c \in ConditionChoices} :
          pods = [p \in PodIds |->
                    IF p = "pod-1" THEN first
                    ELSE IF p = "pod-far" THEN far
                    ELSE IF p = "pod-2" THEN unscheduled
                    ELSE NoPod]
    /\ revision = 1
    /\ queue = {}

LocalitySpec == LocalityInit /\ [][FleetNext]_vars

---------------------------------------------------------------------------
(* main: the settings, the manager, the controller, the start *)

\* os.Exit(1)
Exit(status) == [process EXCEPT !.phase = "exited", !.exitStatus = status]

\* lines 79-95: the two settings are read from flag and environment
ParseFlags ==
    /\ process.phase = "flags"
    /\ \E flagT \in {NotGiven, Given(""), Given("test-taint")} :
       \E envT \in {"", "test-taint"} :
       \E flagO \in {NotGiven, Given(""), Given("test-daemonset-1"), Given(",")} :
       \E envO \in {"", "test-daemonset-1,test-daemonset-2"} :
          process' = [process EXCEPT !.phase = "config",
                                     !.targetTaint = FlagValue(flagT, envT),
                                     !.ownedByNames = FlagValue(flagO, envO)]
    /\ UNCHANGED <<reconciler, nodes, pods, revision, queue>>
    /\ UNCHANGED Controller

\* lines 99-107: both settings are required
CheckConfig ==
    /\ process.phase = "config"
    /\ process' = IF TargetTaintMissing(process.targetTaint) THEN Exit(1)
                  ELSE IF OwnedByNamesMissing(process.ownedByNames) THEN Exit(1)
                  ELSE [process EXCEPT !.phase = "manager"]
    /\ UNCHANGED <<reconciler, nodes, pods, revision, queue>>
    /\ UNCHANGED Controller

\* lines 109-119: ctrl.NewManager, which may fail
NewManager ==
    /\ process.phase = "manager"
    /\ \/ process' = Exit(1)
       \/ process' = [process EXCEPT !.phase = "setup"]
    /\ UNCHANGED <<reconciler, nodes, pods, revision, queue>>
    /\ UNCHANGED Controller

\* lines 121-129 of main and 123-157 of the controller: the reconciler is
\* built from the settings; the index is registered, then the controller;
\* either may fail
SetupWithManager ==
    /\ process.phase = "setup"
    /\ reconciler' = [TargetTaint |-> process.targetTaint,
                      OwnedByNames |-> Split(process.ownedByNames)]
    /\ \/ process' = Exit(1)
       \/ process' = [Exit(1) EXCEPT !.indexed = TRUE]
       \/ process' = [process EXCEPT !.phase = "checks", !.indexed = TRUE]
    /\ UNCHANGED <<nodes, pods, revision, queue>>
    /\ UNCHANGED Controller

\* lines 132-139: the health and ready checks, which may fail
AddChecks ==
    /\ process.phase = "checks"
    /\ \/ process' = Exit(1)
       \/ process' = [process EXCEPT !.phase = "start"]
    /\ UNCHANGED <<reconciler, nodes, pods, revision, queue>>
    /\ UNCHANGED Controller

\* lines 141-145: mgr.Start fails at once, or runs the controller, which
\* begins with a create event for every node in the store
Start ==
    /\ process.phase = "start"
    /\ \/ process' = Exit(1) /\ UNCHANGED queue
       \/ /\ process' = [process EXCEPT !.phase = "serving"]
          /\ queue' = queue \cup InitialList
    /\ UNCHANGED <<reconciler, nodes, pods, revision>>
    /\ UNCHANGED Controller

\* lines 142-146: mgr.Start returns after the controller has run: nil on a
\* signal (main returns, exit status 0) or an error (os.Exit(1)); the queue,
\* the pending re-adds and the running invocations end with the process
Stop ==
    /\ process.phase = "serving"
    /\ \E status \in {0, 1} :
          process' = [process EXCEPT !.phase = "stopped", !.exitStatus = status]
    /\ pc' = Idle
    /\ node' = [n \in NodeNames |-> NoNode]
    /\ queue' = {}
    /\ timers' = {}
    /\ UNCHANGED <<reconciler, nodes, pods, revision, result, writes, rechecks,
                   soleReady>>

\* lines 51-95 run again: a process that has ended (mgr.Start returned, or
\* a start failed) is started again with the same flags and environment,
\* which resolve to the same two settings; nothing of the ended process is
\* kept: no manager, no index, no exit status.  The new process goes on
\* with the checks of lines 99-107
Restart ==
    /\ process.phase \in {"stopped", "exited"}
    /\ process' = [process EXCEPT !.phase = "config", !.exitStatus = 0,
                                  !.indexed = FALSE]
    /\ UNCHANGED <<reconciler, nodes, pods, revision, queue>>
    /\ UNCHANGED Controller

\* StartupSpec: main from its first line, in a cluster with a tainted node
\* and a pod of the first daemonset; the controller gets its requests from
\* the create events that the start of the manager delivers
StartupInit ==
    /\ process = [phase |-> "flags", exitStatus |-> 0, indexed |-> FALSE,
                  targetTaint |-> "", ownedByNames |-> ""]
    /\ reconciler = [TargetTaint |-> "", OwnedByNames |-> <<>>]
    /\ pc = Idle
    /\ node = [n \in NodeNames |-> NoNode]
    /\ result = [n \in NodeNames |-> NoResult]
    /\ writes = [n \in NodeNames |-> 0]
    /\ rechecks = [n \in NodeNames |-> 0]
    /\ timers = {}
    /\ soleReady = {}
    /\ nodes = [n \in NodeNames |-> IF n \in ClusterNodes
                                     THEN NewNode(<<T1>>, 1) ELSE NoNode]
    /\ \E conds \in ConditionChoices :
          pods = [p \in PodIds |->
                    IF p = "pod-1"
                    THEN [PodTemplate(p) EXCEPT !.conditions = conds]
                    ELSE NoPod]
    /\ revision = 1
    /\ queue = {}

StartupNext ==
    \/ ParseFlags
    \/ CheckConfig
    \/ NewManager
    \/ SetupWithManager
    \/ AddChecks
    \/ Start
    \/ Stop
    \/ \E n \in ClusterNodes : ReconcileGet(n)
    \/ \E n \in ClusterNodes : ReconcileList(n)
    \/ \E n \in ClusterNodes : ReconcileUpdate(n)
    \/ \E n \in ClusterNodes : TimerFire(n)

StartupSpec == StartupInit /\ [][StartupNext]_vars

\* LifecycleSpec: the controller in a cluster, as in Spec, and the process
\* stops and is started again at any time: the new process runs main step
\* by step, may exit with status 1 at each of them, and serves once
\* mgr.Start runs the controller
LifecycleNext ==
    \/ Next
    \/ Stop
    \/ Restart
    \/ CheckConfig
    \/ NewManager
    \/ SetupWithManager
    \/ AddChecks
    \/ Start

LifecycleSpec == Init /\ [][LifecycleNext]_vars

\* ShapeSpec: Reconcile for the tainted test node against every shape of a
\* first pod within the bounds (its owner references, its conditions); a
\* second pod, of the second configured daemonset and in another namespace,
\* is absent, not Ready or Ready
ShapeInit ==
    /\ InitController
    /\ nodes = [n \in NodeNames |-> IF n \in ClusterNodes
                                     THEN NewNode(<<O1, T1>>, 1) ELSE NoNode]
    /\ \E owners \in SeqsUpTo(OwnerPool, MaxOwners) :
       \E conds \in SeqsUpTo(ConditionPool, MaxConditions) :
       \E second \in {NoPod} \cup
                {[PodTemplate("pod-2") EXCEPT !.namespace = "kube-system",
                                              !.conditions = c] :
                    c \in ConditionChoices} :
          pods = [p \in PodIds |->
                    IF p = "pod-1" THEN NewPod("test-node", owners, conds)
                    ELSE IF p = "pod-2" THEN second
                    ELSE NoPod]
    /\ revision = 1
    /\ queue = {}

ShapeSpec == ShapeInit /\ [][ReconcileNext]_vars


---------------------------------------------------------------------------
(* Steps of an invocation, as the claims speak of them *)

\* the invocation for n starts: its request leaves the queue and r.Get runs
GetStep(n) ==
    process' = process /\ pc[n] = "idle" /\ n \in queue /\ n \notin queue'
\* r.List runs and the decision is taken
ListStep(n) == process' = process /\ pc[n] = "list" /\ pc'[n] # "list"
\* r.Update runs
UpdateStep(n) == process' = process /\ pc[n] = "update" /\ pc'[n] # "update"
\* the step returns (Result{}, nil): no error, no requeue
ReturnsEmpty(n) == pc'[n] = "idle" /\ result'[n] = ResultOf(0, "nil")
\* the step returns (Result{RequeueAfter: 30s}, nil) and the recheck is scheduled
ReturnsRecheck(n) ==
    pc'[n] = "idle" /\ result'[n] = ResultOf(30, "nil") /\ n \in timers'
\* the step leaves the store as it is
NoWrite == nodes' = nodes /\ pods' = pods /\ revision' = revision
\* a step of the invocation for n
InvocationStep(n) == GetStep(n) \/ ListStep(n) \/ UpdateStep(n)
\* the invocation for n decides to remove the taint: it goes on to r.Update
DecidesRemoval(n) == pc[n] # "update" /\ pc'[n] = "update"

---------------------------------------------------------------------------
(* C1: all-ready removal.  An invocation for a node that carries the target
   taint and whose target pods exist and are all Ready goes, when its store
   calls succeed, from Get to List to Update; the update stores exactly the
   previous taint list without the entries of the target key (all of them,
   whatever their value or effect), the other entries in their old order,
   and the invocation returns no error and no requeue. *)
AllReadyRemoval ==
    [][\A n \in NodeNames :
        /\ (GetStep(n) /\ Tainted(n) /\ StepOK(n)) => pc'[n] = "list"
        /\ (ListStep(n) /\ GateSatisfied(n) /\ StepOK(n)) => pc'[n] = "update"
        /\ (UpdateStep(n) /\ StepOK(n)) =>
              /\ ReturnsEmpty(n)
              /\ writes'[n] = 1
              /\ nodes'[n].exists
              /\ IsWithoutKey(nodes'[n].taints, nodes[n].taints, "test-taint")
              /\ \A m \in NodeNames \ {n} : nodes'[m] = nodes[m]]_vars

\* a removal has happened on a node that had a target taint between two
\* other taints, or before or after them: both are kept, in their order
AllReadyRemovalWitness ==
    \E n \in NodeNames :
        /\ pc[n] = "idle" /\ result[n] = ResultOf(0, "nil") /\ writes[n] = 1
        /\ GateSatisfied(n)
        /\ nodes[n].taints = <<O2, O1>>

\* a Ready pod on n with an owner reference of the given name
NameHasReadyPod(n, name) ==
    \E p \in PodIds :
        /\ pods[p].exists /\ pods[p].nodeName = n /\ IsReady(p)
        /\ \E o \in Range(pods[p].ownerReferences) : o.Name = name

(* C2: the taint is removed only when every configured workload name has a
   Ready pod on the node.  Stated for the store of ReconcileSpec, which no
   external actor changes: after an invocation that removed the taint, each
   name of OwnedByNames owns a Ready pod on the node. *)
RemovalOnlyWhenEveryNameReady ==
    \A n \in NodeNames :
        (pc[n] = "idle" /\ result[n] = ResultOf(0, "nil") /\ writes[n] = 1)
            => \A name \in Range(reconciler.OwnedByNames) : NameHasReadyPod(n, name)

\* the target pods on n are two pods owned by different names
TwoWorkloads(n) ==
    \E p, q \in TargetPodsOf(n) :
        /\ p # q
        /\ TargetPodsOf(n) = {p, q}
        /\ \A o \in Range(pods[p].ownerReferences) :
              \A u \in Range(pods[q].ownerReferences) : o.Name # u.Name

(* C3: partial-readiness gating.  With two target pods on the node, owned
   by two different configured names, an invocation that lists the pods
   while exactly one of them is Ready returns the 30-second recheck and
   writes nothing; an invocation decides to remove the taint only when it
   lists both Ready, and only such a decision leads to a write. *)
PartialReadinessGating ==
    [][\A n \in NodeNames :
        /\ (ListStep(n) /\ TwoWorkloads(n) /\ SoleReadyOf(n) # {} /\ StepOK(n))
              => (ReturnsRecheck(n) /\ NoWrite)
        /\ (DecidesRemoval(n) /\ TwoWorkloads(n))
              => (ListStep(n) /\ \A p \in TargetPodsOf(n) : IsReady(p))
        /\ (InvocationStep(n) /\ ~NoWrite) => UpdateStep(n)]_vars

\* the taint has been removed with both pods Ready, after rechecks that saw
\* only the first pod Ready and rechecks that saw only the second one Ready
PartialReadinessGatingWitness ==
    \E n \in NodeNames :
        /\ soleReady = {"pod-1", "pod-2"}
        /\ pc[n] = "idle" /\ result[n] = ResultOf(0, "nil") /\ writes[n] = 1
        /\ nodes[n].exists /\ ~Tainted(n)
        /\ TwoWorkloads(n) /\ GateSatisfied(n)

(* C4: no-taint no-op.  An invocation for a node without a taint of the
   target key returns, when Get succeeds, the empty result at once, whatever
   pods are on the node: it calls neither List nor Update, writes nothing
   and schedules no requeue. *)
NoTaintNoOp ==
    [][\A n \in NodeNames :
        (GetStep(n) /\ nodes[n].exists /\ ~Tainted(n) /\ StepOK(n))
            => /\ ReturnsEmpty(n)
               /\ writes'[n] = 0
               /\ NoWrite
               /\ timers' = timers]_vars

\* an untainted node with other taints and all its target pods Ready has been
\* reconciled and never written
NoTaintNoOpWitness ==
    \E n \in NodeNames :
        /\ pc[n] = "idle" /\ result[n] = ResultOf(0, "nil") /\ writes[n] = 0
        /\ nodes[n] = NewNode(<<O1, O2>>, 1) /\ revision = 1
        /\ GateSatisfied(n)

(* C5: empty-target-pods recheck.  An invocation for a tainted node that
   lists no pod, or no pod owned by a configured name, returns, when List
   succeeds, the recheck after exactly 30 seconds, never decides to remove
   the taint and writes nothing. *)
EmptyTargetPodsRecheck ==
    [][\A n \in NodeNames :
        (ListStep(n) /\ TargetPodsOf(n) = {})
            => /\ StepOK(n) => ReturnsRecheck(n)
               /\ ~DecidesRemoval(n)
               /\ NoWrite]_vars

\* a tainted node with no pod at all has been rechecked
EmptyTargetPodsRecheckWitness ==
    \E n \in NodeNames :
        /\ pc[n] = "idle" /\ result[n] = ResultOf(30, "nil") /\ writes[n] = 0
        /\ Tainted(n) /\ n \in timers
        /\ \A p \in PodIds : ~pods[p].exists

\* the pods on n that are not target pods
NonTargetPodsOf(n) == PodsOnNode(n) \ TargetPodsOf(n)

\* the decision of lines 61-99 on the pods in the given order, the pods of
\* `others` given the conditions conds
DecisionWith(order, others, conds) ==
    ShouldRemove(CheckPods(
        [i \in 1..Len(order) |->
            IF order[i] \in others
            THEN [pods[order[i]] EXCEPT !.conditions = conds]
            ELSE pods[order[i]]],
        1, reconciler.OwnedByNames,
        [allPodsReady |-> TRUE, hasTargetPods |-> FALSE]))

(* C6: ownership isolation.  An invocation that lists only pods owned by
   names outside the configured set, Ready or not, returns the recheck and
   writes nothing; and whenever an invocation lists pods, its decision
   stays the same for every order of the list and every readiness given to
   the pods that are not target pods. *)
OwnershipIsolation ==
    [][\A n \in NodeNames :
        /\ (ListStep(n) /\ TargetPodsOf(n) = {} /\ NonTargetPodsOf(n) # {}
                /\ StepOK(n))
              => (ReturnsRecheck(n) /\ NoWrite)
        /\ (ListStep(n) /\ StepOK(n))
              => \A order \in Orders(PodsOnNode(n)) :
                   \A conds \in ConditionChoices :
                      DecidesRemoval(n) =
                          DecisionWith(order, NonTargetPodsOf(n), conds)]_vars

\* a tainted node whose only pod is Ready and owned by another workload has
\* been rechecked
OwnershipIsolationWitness ==
    \E n \in NodeNames :
        /\ pc[n] = "idle" /\ result[n] = ResultOf(30, "nil") /\ writes[n] = 0
        /\ Tainted(n)
        /\ PodsOnNode(n) = {"pod-other"} /\ IsReady("pod-other")

(* C8: the taint is lifted only after the target workloads are Ready.  In
   every interleaving with external changes, an invocation decides to remove
   the taint only in its List step and only if the store then holds some
   target pod on the node and every target pod on the node Ready; and an
   invocation writes only in the Update step that follows this decision. *)
RemovalPrecededByGate ==
    [][\A n \in NodeNames :
        /\ DecidesRemoval(n) => (ListStep(n) /\ GateSatisfied(n))
        /\ (InvocationStep(n) /\ ~NoWrite) => (UpdateStep(n) /\ pc[n] = "update")]_vars

\* the update is about to be accepted although a target pod has stopped
\* being Ready since the invocation listed the pods
RemovalPrecededByGateWitness ==
    \E n \in NodeNames :
        /\ pc[n] = "update" /\ UpdateAccepted(n)
        /\ TargetPodsOf(n) # {} /\ ~GateSatisfied(n)

(* C9: constant, indefinite recheck.  Every invocation that lists the pods
   of a node it read with the taint while the gate is not satisfied returns,
   when List succeeds, the recheck after exactly 30 seconds, whatever the
   number of rechecks before it; and a returned recheck stays scheduled
   until the next invocation starts. *)
ConstantIndefiniteRecheck ==
    /\ [][\A n \in NodeNames :
            (ListStep(n) /\ ~GateSatisfied(n) /\ StepOK(n))
                => (ReturnsRecheck(n) /\ NoWrite)]_vars
    /\ [](\A n \in NodeNames :
            (pc[n] = "idle" /\ result[n].RequeueAfter > 0)
                => (result[n] = ResultOf(30, "nil") /\ n \in timers \cup queue))

\* the recheck has been returned as many times in a row as the counter counts
ConstantIndefiniteRecheckWitness ==
    \E n \in NodeNames :
        /\ rechecks[n] = MaxRechecks
        /\ pc[n] = "idle" /\ result[n] = ResultOf(30, "nil") /\ n \in timers
        /\ Tainted(n) /\ ~GateSatisfied(n)

(* C10: idempotent removal.  After an invocation that removed the taint, the
   next invocation for the node, its target pods still all Ready, returns
   the empty result when Get succeeds, calls no Update and leaves the store
   as it is. *)
IdempotentRemoval ==
    [][\A n \in NodeNames :
        (GetStep(n) /\ result[n] = ResultOf(0, "nil") /\ writes[n] = 1
             /\ GateSatisfied(n) /\ StepOK(n))
            => /\ ReturnsEmpty(n)
               /\ writes'[n] = 0
               /\ NoWrite
               /\ timers' = timers]_vars

\* a second invocation has returned after the one that removed the taint
IdempotentRemovalWitness ==
    \E n \in NodeNames :
        /\ pc[n] = "idle" /\ result[n] = ResultOf(0, "nil") /\ writes[n] = 0
        /\ revision = 2 /\ nodes[n].resourceVersion = 2
        /\ nodes[n].taints # <<>>
        /\ GateSatisfied(n)

(* C7: eventual removal.  Under FairSpec, if from some point on the node has
   a target pod and all its target pods stay Ready, then whenever the node
   carries the target taint and its request is queued (as it is when the node
   is created with the taint), the node is later without the target taint. *)
EventualRemoval ==
    \A n \in NodeNames :
        (<>[]GateSatisfied(n))
            => [](Tainted(n) /\ n \in queue => <>(~Tainted(n)))

\* a node created with the taint has had it removed by Reconcile, the only
\* writer of the node since its creation
EventualRemovalWitness ==
    \E n \in NodeNames :
        /\ pc[n] = "idle" /\ result[n] = ResultOf(0, "nil") /\ writes[n] = 1
        /\ nodes[n].exists /\ ~Tainted(n) /\ revision = 2
        /\ n \notin queue \cup timers
        /\ GateSatisfied(n)

(* C11: missing-node tolerance.  An invocation for a node that is not in the
   store, never created or deleted since its request was queued, either
   fails in Get with another error or returns the empty result: no error, no
   requeue, no List, no Update, no write.  A Get that fails with an error
   other than not-found returns that error, with no requeue delay and no
   write. *)
MissingNodeTolerance ==
    [][\A n \in NodeNames :
        /\ (GetStep(n) /\ ~nodes[n].exists)
              => /\ pc'[n] = "idle"
                 /\ writes'[n] = 0
                 /\ NoWrite
                 /\ \/ ReturnsEmpty(n) /\ timers' = timers
                    \/ result'[n] = ResultOf(0, "get")
        /\ (GetStep(n) /\ ~StepOK(n))
              => /\ result'[n] = ResultOf(0, "get")
                 /\ writes'[n] = 0
                 /\ NoWrite]_vars

\* a node was created with the taint and rechecked (a recheck saw one pod
\* alone Ready), then deleted while the recheck was pending: the invocation
\* that found it missing has returned the empty result, its request is
\* forgotten
MissingNodeToleranceWitness ==
    \E n \in NodeNames :
        /\ ~nodes[n].exists /\ revision = 2 /\ soleReady # {}
        /\ pc[n] = "idle" /\ result[n] = ResultOf(0, "nil") /\ writes[n] = 0
        /\ n \notin queue \cup timers

\* nothing of the runtime holds the request of n: no invocation runs, none
\* is queued, no delayed re-add is pending
Forgotten(n) == pc[n] = "idle" /\ n \notin queue \cup timers

\* the step creates node n
CreationStep(n) == ~nodes[n].exists /\ nodes'[n].exists

\* the step starts the manager: Start, of the first process or of one
\* started again
StartStep == process.phase # "serving" /\ process'.phase = "serving"

\* the step delivers a create event for node n to the controller: the node
\* is created while the manager runs, or the manager starts with the node
\* in the store
CreateEvent(n) ==
    \/ CreationStep(n) /\ process.phase = "serving"
    \/ StartStep /\ nodes[n].exists

(* C12: only node-creation events trigger reconciliation.  The creation of
   a node queues its request; a change or the deletion of a node by another
   actor, and a generic event, queue nothing and start nothing.  An
   invocation that removes the taint successfully schedules no requeue.
   Hence a request the runtime has forgotten stays forgotten, and no step of
   an invocation for the node happens, whatever is done to the node (the
   target taint put back on it included), until a create event for the node
   is delivered: the node is created again, or the manager is started again
   with the node in the store. *)
OnlyCreationTriggers ==
    [][\A n \in NodeNames :
        /\ CreateEvent(n) => n \in queue'
        /\ (nodes[n].exists /\ nodes'[n] # nodes[n] /\ ~UpdateStep(n))
              => (queue' = queue /\ timers' = timers /\ pc' = pc)
        /\ (UpdateStep(n) /\ ReturnsEmpty(n))
              => (queue' = queue /\ timers' = timers)
        /\ (Forgotten(n) /\ ~CreateEvent(n))
              => /\ Forgotten(n)'
                 /\ ~InvocationStep(n)
                 /\ result'[n] = result[n] /\ writes'[n] = writes[n]]_vars

\* Reconcile removed the taint of a node (the second write of the store), an
\* external actor put the target taint back (the third), the target pods
\* are all Ready, and the request is forgotten: the taint stays
OnlyCreationTriggersWitness ==
    \E n \in NodeNames :
        /\ pc[n] = "idle" /\ result[n] = ResultOf(0, "nil") /\ writes[n] = 1
        /\ Tainted(n) /\ GateSatisfied(n)
        /\ revision = 3 /\ nodes[n].resourceVersion = 3
        /\ Forgotten(n)

(* C13: update failure handling.  The Update step of an invocation is its
   only call of Update: it is made once and the invocation returns after it.
   An update of a node that changed since the invocation read it, or that is
   gone, fails.  When the update fails, the invocation returns the error
   with no requeue delay, the store is left exactly as it was (the node keeps
   its whole taint list), and the runtime retries the request; the retry, if
   it reads the node with the target taint, goes on to list the pods again. *)
UpdateFailureHandling ==
    [][\A n \in NodeNames :
        /\ UpdateStep(n)
              => (writes[n] = 0 /\ writes'[n] = 1 /\ pc'[n] = "idle")
        /\ (UpdateStep(n) /\ ~UpdateAccepted(n)) => ~StepOK(n)
        /\ (UpdateStep(n) /\ ~StepOK(n))
              => /\ result'[n] = ResultOf(0, "update")
                 /\ NoWrite
                 /\ n \in timers'
        /\ (GetStep(n) /\ result[n].err = "update" /\ Tainted(n) /\ StepOK(n))
              => pc'[n] = "list"]_vars

\* an update has failed: the node still carries the target taint, its
\* target pods are all Ready, and the request waits for its retry
UpdateFailureHandlingWitness ==
    \E n \in NodeNames :
        /\ pc[n] = "idle" /\ result[n] = ResultOf(0, "update") /\ writes[n] = 1
        /\ Tainted(n) /\ GateSatisfied(n)
        /\ n \in timers

(* C14: list failure handling.  The List step of an invocation writes
   nothing and calls no Update; it ends in the removal decision, in the
   30-second recheck, or in the error of List.  When List fails, the
   invocation returns the error with the empty Result (no recheck delay),
   decides neither removal nor recheck whatever pods are on the node, and the
   runtime retries the request. *)
ListFailureHandling ==
    [][\A n \in NodeNames :
        /\ ListStep(n)
              => /\ NoWrite /\ writes'[n] = 0
                 /\ \/ DecidesRemoval(n)
                    \/ ReturnsRecheck(n)
                    \/ pc'[n] = "idle" /\ result'[n] = ResultOf(0, "list")
        /\ (ListStep(n) /\ ~StepOK(n))
              => /\ result'[n] = ResultOf(0, "list")
                 /\ ~DecidesRemoval(n)
                 /\ rechecks'[n] = rechecks[n]
                 /\ n \in timers']_vars

\* List has failed for a tainted node whose target pods are all Ready: no
\* removal was decided and the store still holds its first version
ListFailureHandlingWitness ==
    \E n \in NodeNames :
        /\ pc[n] = "idle" /\ result[n] = ResultOf(0, "list") /\ writes[n] = 0
        /\ Tainted(n) /\ GateSatisfied(n)
        /\ revision = 1 /\ n \in timers

\* s is t with some entries left out: the entries of s, unchanged, in order
RECURSIVE IsSubSeq(_, _)
IsSubSeq(s, t) ==
    IF s = <<>> THEN TRUE
    ELSE IF t = <<>> THEN FALSE
    ELSE IF Head(s) = Head(t) THEN IsSubSeq(Tail(s), Tail(t))
    ELSE IsSubSeq(s, Tail(t))

(* C15: remove-only.  No step of an invocation creates or deletes a node,
   adds a taint to a node, changes a taint, or puts the target taint on a
   node that is without it: after the step every node's taint list is its
   list before the step with some entries left out.  The list an invocation
   writes is the one it computed, which is the list it read from the store
   without some entries and without any entry of the target key. *)
RemoveOnly ==
    [][\A n \in NodeNames :
        /\ InvocationStep(n)
              => \A m \in NodeNames :
                    /\ nodes'[m].exists = nodes[m].exists
                    /\ IsSubSeq(nodes'[m].taints, nodes[m].taints)
                    /\ ~Tainted(m) => ~Tainted(m)'
        /\ (GetStep(n) /\ pc'[n] = "list") => node'[n] = nodes[n]
        /\ DecidesRemoval(n)
              => /\ IsSubSeq(node'[n].taints, node[n].taints)
                 /\ \A t \in Range(node'[n].taints) : t.Key # "test-taint"
        /\ (UpdateStep(n) /\ ~NoWrite)
              => nodes'[n].taints = node[n].taints]_vars

\* an external actor changed the taints of the node, then an invocation read
\* the two taints and wrote the list without the target taint
RemoveOnlyWitness ==
    \E n \in NodeNames :
        /\ pc[n] = "idle" /\ result[n] = ResultOf(0, "nil") /\ writes[n] = 1
        /\ nodes[n] = NewNode(<<O1>>, 3) /\ revision = 3

(* C16: write footprint.  In a store no one else writes: a step of an
   invocation for a node changes no pod and no other node; its Get and List
   steps write nothing and call no Update; its Update step is its one call
   of Update and writes the store at most once; and a write happens only in
   the Update step of an invocation for a node with the target taint whose
   target pods exist and are all Ready.  An invocation that has returned has
   called Update at most once, and not at all if it returned a recheck. *)
WriteFootprint ==
    /\ [][\A n \in NodeNames :
            /\ InvocationStep(n)
                  => /\ pods' = pods
                     /\ \A m \in NodeNames \ {n} : nodes'[m] = nodes[m]
                     /\ revision' \in {revision, revision + 1}
            /\ (GetStep(n) \/ ListStep(n)) => (NoWrite /\ writes'[n] = 0)
            /\ UpdateStep(n) => (writes[n] = 0 /\ writes'[n] = 1)
            /\ (InvocationStep(n) /\ ~NoWrite)
                  => (UpdateStep(n) /\ Tainted(n) /\ GateSatisfied(n))]_vars
    /\ [](\A n \in NodeNames :
            /\ writes[n] \in {0, 1}
            /\ (pc[n] = "idle" /\ result[n].RequeueAfter > 0) => writes[n] = 0)

\* the taint of the test node has been removed while the other node, with
\* its two taints and no Ready target pod of its own, was rechecked and is
\* as it was created
WriteFootprintWitness ==
    /\ pc["test-node"] = "idle" /\ result["test-node"] = ResultOf(0, "nil")
    /\ writes["test-node"] = 1 /\ ~Tainted("test-node")
    /\ pc["other-node"] = "idle" /\ result["other-node"] = ResultOf(30, "nil")
    /\ writes["other-node"] = 0
    /\ nodes["other-node"] = NewNode(<<O1, T1>>, 1)
    /\ pods["pod-far"].exists /\ ~IsReady("pod-far") /\ IsReady("pod-1")

(* C17: Ready predicate.  A target pod counts as Ready exactly if its
   condition list holds an entry of type Ready with status True.  An
   invocation that lists, for a tainted node, a target pod without such an
   entry (no condition at all, Ready False or Unknown, only other condition
   types True) returns, when List succeeds, the 30-second recheck and writes
   nothing; one that lists a target pod, and every target pod with such an
   entry, decides to remove the taint. *)
ReadyPredicate ==
    [][\A n \in NodeNames :
        /\ (ListStep(n) /\ StepOK(n)
                /\ \E p \in TargetPodsOf(n) :
                      ~\E c \in Range(pods[p].conditions) :
                          c.Type = "Ready" /\ c.Status = "True")
              => (ReturnsRecheck(n) /\ NoWrite /\ Tainted(n)')
        /\ (ListStep(n) /\ StepOK(n) /\ TargetPodsOf(n) # {}
                /\ \A p \in TargetPodsOf(n) :
                      \E c \in Range(pods[p].conditions) :
                          c.Type = "Ready" /\ c.Status = "True")
              => DecidesRemoval(n)]_vars

\* a tainted node has been rechecked whose first target pod has its
\* containers ready but its Ready condition Unknown, the second one Ready
ReadyPredicateWitness ==
    \E n \in NodeNames :
        /\ pc[n] = "idle" /\ result[n] = ResultOf(30, "nil") /\ writes[n] = 0
        /\ Tainted(n)
        /\ TargetPodsOf(n) = {"pod-1", "pod-2"}
        /\ pods["pod-1"].conditions = <<Condition("ContainersReady", "True"),
                                        Condition("Ready", "Unknown")>>
        /\ IsReady("pod-2")

\* the listed pods in the given order, every owner reference given the API
\* group, kind and UID of ref, every pod put in namespace ns
ItemsAs(order, ref, ns) ==
    [i \in 1..Len(order) |->
        LET pod == pods[order[i]]
        IN  [pod EXCEPT
                !.namespace = ns,
                !.ownerReferences =
                    [k \in 1..Len(pod.ownerReferences) |->
                        [ref EXCEPT !.Name = pod.ownerReferences[k].Name]]]]

\* the values the fields beside the name take in the comparison
OwnerVariants == {OwnerRefOf("apps/v1", "DaemonSet", "", "test-uid"),
                  OwnerRefOf("batch/v1", "Job", "", "job-uid"),
                  OwnerRefOf("apps/v1", "StatefulSet", "", "")}
Namespaces == {"default", "kube-system"}

(* C20: name-only ownership match.  An invocation that lists the pods of a
   tainted node decides, when List succeeds, to remove the taint exactly if
   some listed pod has an owner reference whose name is a configured name
   and every such pod is Ready; the kind, API group and UID of the owner
   references and the namespace of the pods play no part: the decision is
   the one taken on the same pods with these fields set to any other
   values. *)
NameOnlyOwnership ==
    [][\A n \in NodeNames :
        (ListStep(n) /\ StepOK(n))
            => /\ DecidesRemoval(n) <=>
                    /\ \E p \in PodsOnNode(n) :
                          \E o \in Range(pods[p].ownerReferences) :
                              o.Name \in {"test-daemonset-1", "test-daemonset-2"}
                    /\ \A p \in PodsOnNode(n) :
                          (\E o \in Range(pods[p].ownerReferences) :
                              o.Name \in {"test-daemonset-1", "test-daemonset-2"})
                            => IsReady(p)
               /\ \A order \in Orders(PodsOnNode(n)) :
                  \A ref \in OwnerVariants : \A ns \in Namespaces :
                      DecidesRemoval(n) =
                          ShouldRemove(CheckPods(ItemsAs(order, ref, ns), 1, reconciler.OwnedByNames,
                              [allPodsReady |-> TRUE, hasTargetPods |-> FALSE]))]_vars

\* a tainted node has been rechecked because of a pod that is not Ready and
\* whose owners are a workload with another name and a Job that has the
\* name of the first configured daemonset; the pod of the second daemonset,
\* in another namespace, is Ready
NameOnlyOwnershipWitness ==
    \E n \in NodeNames :
        /\ pc[n] = "idle" /\ result[n] = ResultOf(30, "nil") /\ writes[n] = 0
        /\ Tainted(n)
        /\ pods["pod-1"].ownerReferences =
              <<OwnerRef("DaemonSet", "other-daemonset"),
                OwnerRefOf("batch/v1", "Job", "test-daemonset-1", "job-uid")>>
        /\ ~IsReady("pod-1")
        /\ pods["pod-2"].exists /\ pods["pod-2"].namespace = "kube-system"
        /\ IsReady("pod-2")

\* the rearrangements of lists: f rearranges the lists of its length
Rearrangements(k) == UNION {Orders(1..m) : m \in 1..k}
Rearranged(s, f) ==
    IF Len(s) = Len(f) THEN [i \in 1..Len(s) |-> s[f[i]]] ELSE s

\* the listed pods in the given order, their owner references rearranged by
\* f and their conditions by g
ItemsRearranged(order, f, g) ==
    [i \in 1..Len(order) |->
        LET pod == pods[order[i]]
        IN  [pod EXCEPT !.ownerReferences = Rearranged(pod.ownerReferences, f),
                        !.conditions = Rearranged(pod.conditions, g)]]

\* lines 41-119: what Reconcile does for a node with the given taints and
\* listed pods, its store calls succeeding
Outcome(taints, items, names, key) ==
    IF ~HasTargetTaint(taints, key)
    THEN [kind |-> "no-op", taints |-> taints]
    ELSE IF ShouldRemove(CheckPods(items, 1, names,
                [allPodsReady |-> TRUE, hasTargetPods |-> FALSE]))
         THEN [kind |-> "removal", taints |-> NewTaints(taints, key)]
         ELSE [kind |-> "recheck", taints |-> taints]

\* what the step of the invocation for n does
Observed(n) ==
    IF GetStep(n) /\ ReturnsEmpty(n)
    THEN [kind |-> "no-op", taints |-> nodes[n].taints]
    ELSE IF DecidesRemoval(n)
         THEN [kind |-> "removal", taints |-> node'[n].taints]
         ELSE IF ListStep(n) /\ ReturnsRecheck(n)
              THEN [kind |-> "recheck", taints |-> node[n].taints]
              ELSE [kind |-> "none", taints |-> <<>>]

(* C19: order- and history-independence.  What an invocation does once its
   store calls have succeeded (no-op, removal with the taint list it writes,
   30-second recheck) is a function of the configuration, the taints of the
   node and the pods on the node: it is the same for every order of the pod
   list, every order of the owner references and of the conditions of the
   pods, and every order of the configured names, in whatever state earlier
   invocations left the controller. *)
OrderHistoryIndependence ==
    [][\A n \in NodeNames :
        (((GetStep(n) /\ nodes[n].exists /\ pc'[n] = "idle") \/ ListStep(n))
            /\ StepOK(n))
          => \A order \in Orders(PodsOnNode(n)) :
             \A f \in Rearrangements(MaxOwners) :
             \A g \in Rearrangements(MaxConditions) :
             \A names \in {reconciler.OwnedByNames,
                              <<reconciler.OwnedByNames[2], reconciler.OwnedByNames[1]>>} :
                Observed(n) =
                    Outcome(IF ListStep(n) THEN node[n].taints ELSE nodes[n].taints,
                            ItemsRearranged(order, f, g), names, reconciler.TargetTaint)]_vars

\* the taint has been removed from a node with two target pods, the first
\* with two owner references and two conditions, after an earlier
\* invocation that failed
OrderHistoryIndependenceWitness ==
    \E n \in NodeNames :
        /\ pc[n] = "idle" /\ result[n] = ResultOf(0, "nil") /\ writes[n] = 1
        /\ nodes[n] = NewNode(<<O1>>, 2)
        /\ TargetPodsOf(n) = {"pod-1", "pod-2"}
        /\ Len(pods["pod-1"].ownerReferences) = 2
        /\ pods["pod-1"].ownerReferences[1].Name # pods["pod-1"].ownerReferences[2].Name
        /\ Len(pods["pod-1"].conditions) = 2
        /\ pods["pod-1"].conditions[1] # pods["pod-1"].conditions[2]

\* an invocation of Reconcile has started for n, now or earlier
Invoked(n) == pc[n] # "idle" \/ result[n] # ResultOf(0, "pending")

(* C18: fatal startup.  The manager runs, and an invocation of Reconcile
   can have started, only with a target taint key and a name list that are
   not empty after the flags and the environment are resolved, and with the
   pod index registered.  With an empty setting the process gets no further
   than the check of the settings, and with a failed registration no further
   than the setup of the controller: it exits with status 1, for good, and no
   invocation of Reconcile has started.  Only a process that has run the
   manager ends otherwise: with status 0 or 1, when mgr.Start returns. *)
FatalStartup ==
    /\ [](process.phase \in {"serving", "stopped"}
            => /\ process.targetTaint # "" /\ process.ownedByNames # ""
               /\ process.indexed
               /\ reconciler.TargetTaint = process.targetTaint
               /\ reconciler.OwnedByNames # <<>>)
    /\ [](\A n \in NodeNames :
            Invoked(n) => process.phase \in {"serving", "stopped"})
    /\ []((process.targetTaint = "" \/ process.ownedByNames = "")
            => process.phase \in {"flags", "config", "exited"})
    /\ [](~process.indexed
            => process.phase \in {"flags", "config", "manager", "setup", "exited"})
    /\ [](process.phase = "exited"
            => (process.exitStatus = 1 /\ \A n \in NodeNames : ~Invoked(n)))
    /\ [](process.exitStatus # 0 => process.phase \in {"exited", "stopped"})
    /\ [][process.phase = "exited" => process' = process]_vars

\* both settings were given, the registration of the index failed: the
\* process has exited with status 1; the tainted node of the store was
\* never queued and never reconciled
FatalStartupWitness ==
    /\ process.phase = "exited" /\ process.exitStatus = 1
    /\ process.targetTaint = "test-taint"
    /\ process.ownedByNames = "test-daemonset-1,test-daemonset-2"
    /\ ~process.indexed
    /\ Tainted("test-node")
    /\ queue = {} /\ ~Invoked("test-node")

\* the decision of lines 61-99 on the pods in the given order
DecisionOn(order) ==
    ShouldRemove(CheckPods(Items(order), 1, reconciler.OwnedByNames,
                           [allPodsReady |-> TRUE, hasTargetPods |-> FALSE]))

(* C21: node locality of the pod lookup.  The pods listed for a node are
   exactly the pods whose node name is the name of the node; a pod that is
   not scheduled has no index entry and is listed for no node.  An
   invocation for a node decides, when List succeeds, to remove the taint
   exactly if some target pod is scheduled on that node and all target pods
   scheduled on it are Ready, whatever pods are unscheduled or on other
   nodes: the decision is the one taken on the pods of that node alone. *)
NodeLocality ==
    /\ [](\A n \in NodeNames :
            PodsOnNode(n) = {p \in PodIds : pods[p].exists /\ pods[p].nodeName = n})
    /\ [](\A p \in PodIds :
            (pods[p].exists /\ pods[p].nodeName = "")
                => (IndexFunc(pods[p]) = {} /\ \A n \in NodeNames : p \notin PodsOnNode(n)))
    /\ [][\A n \in NodeNames :
            (ListStep(n) /\ StepOK(n))
                => /\ DecidesRemoval(n) <=> GateSatisfied(n)
                   /\ \A order \in Orders({p \in PodIds :
                                pods[p].exists /\ pods[p].nodeName = n}) :
                         DecidesRemoval(n) = DecisionOn(order)]_vars

\* the taint of the test node has been removed with its own pod Ready,
\* while a target pod on the other node and an unscheduled target pod are
\* not Ready
NodeLocalityWitness ==
    /\ pc["test-node"] = "idle" /\ result["test-node"] = ResultOf(0, "nil")
    /\ writes["test-node"] = 1 /\ ~Tainted("test-node")
    /\ IsReady("pod-1")
    /\ pods["pod-far"].nodeName = "other-node" /\ ~IsReady("pod-far")
    /\ pods["pod-2"].exists /\ pods["pod-2"].nodeName = "" /\ ~IsReady("pod-2")

\* the node changed in the store after the invocation for n read it
Stale(n) ==
    ~nodes[n].exists \/ nodes[n].resourceVersion # node[n].resourceVersion

(* C22: concurrent external node writes.  When an external writer changes
   or deletes the node between the Get and the Update of an invocation, the
   update is rejected: the invocation returns the error and the store keeps
   the external change.  In every interleaving the Update step either fails
   and writes nothing, or leaves the node with the taint list the store held
   just before the step without its entries of the target key, and nothing
   else changed in that list. *)
ConcurrentNodeWrites ==
    [][\A n \in NodeNames :
        /\ (UpdateStep(n) /\ Stale(n))
              => (result'[n] = ResultOf(0, "update") /\ NoWrite)
        /\ UpdateStep(n)
              => \/ result'[n].err = "update" /\ NoWrite
                 \/ /\ ReturnsEmpty(n)
                    /\ nodes'[n].exists
                    /\ IsWithoutKey(nodes'[n].taints, nodes[n].taints, "test-taint")]_vars

\* an invocation read the node with the target taint alone; an external
\* writer has since put another taint before it, and the invocation is
\* about to send its update
ConcurrentNodeWritesWitness ==
    \E n \in NodeNames :
        /\ pc[n] = "update"
        /\ node[n].resourceVersion = 1 /\ node[n].taints = <<>>
        /\ nodes[n] = NewNode(<<O1, T1>>, 2)
        /\ GateSatisfied(n)

\* what belongs to node m: the node, its request and the invocation for it
Own(m) ==
    <<nodes[m], pc[m], node[m], result[m], writes[m], rechecks[m],
      m \in queue, m \in timers>>

(* C23: cross-node concurrency.  With invocations for two nodes interleaved
   step by step in a store no one else writes, a step of the invocation for
   one node changes nothing that belongs to the other node, and what it does
   is what Reconcile does for its node alone: the node is read as it is
   stored, the List step decides by the taints and pods of its own node.
   Whatever the interleaving, an invocation that has returned without error
   returned what an invocation running alone returns, and the node has the
   taints it has after that invocation: a recheck for a tainted node whose
   gate is not satisfied, a removal for a node whose gate is satisfied, a
   no-op for a node without the taint. *)
CrossNodeConcurrency ==
    /\ [][\A n \in NodeNames :
            InvocationStep(n)
                => /\ \A m \in NodeNames \ {n} : Own(m)' = Own(m)
                   /\ pods' = pods /\ reconciler' = reconciler
                   /\ (ListStep(n) /\ StepOK(n))
                        => \A order \in Orders(PodsOnNode(n)) :
                              Observed(n) = Outcome(nodes[n].taints, Items(order),
                                                    reconciler.OwnedByNames,
                                                    reconciler.TargetTaint)]_vars
    /\ [](\A n \in NodeNames :
            /\ pc[n] # "idle" => node[n].resourceVersion = nodes[n].resourceVersion
            /\ (pc[n] = "idle" /\ result[n].err = "nil")
                  => IF result[n] = ResultOf(30, "nil")
                     THEN /\ Tainted(n) /\ ~GateSatisfied(n)
                          /\ nodes[n].resourceVersion = 1
                     ELSE IF writes[n] = 1
                     THEN /\ ~Tainted(n) /\ GateSatisfied(n)
                          /\ nodes[n].taints \in
                                {NewTaints(c.taints, reconciler.TargetTaint) : c \in FleetNodeChoices}
                     ELSE ~Tainted(n))

\* the invocations for the two nodes run at the same time: both have read
\* their node and listed their pods, neither has sent its update yet
CrossNodeConcurrencyWitness ==
    /\ pc["test-node"] = "update" /\ pc["other-node"] = "update"
    /\ revision = 1
    /\ nodes["test-node"] = NewNode(<<O1, T1>>, 1)
    /\ nodes["other-node"] = NewNode(<<T1>>, 1)

\* the last invocation for n found the node without the target taint and
\* returned the no-op, its request is forgotten, and the node now carries
\* the target taint
LateTainted(n) ==
    /\ Forgotten(n)
    /\ result[n] = ResultOf(0, "nil") /\ writes[n] = 0
    /\ Tainted(n)

(* C24: late-tainted nodes are not processed in the same run of the
   manager.  The invocation for a node that exists without the target taint
   returns, when Get succeeds, the no-op: no requeue, no write.  An update
   that puts the target taint on an existing node queues nothing and starts
   nothing.  So while no create event for a node tainted after its no-op is
   delivered, no step of an invocation for it happens, its request stays
   forgotten, and every change of the node is the work of another actor, its
   target pods Ready or not.  A start of the manager with the node in the
   store is such a create event: it queues the request of the node. *)
LateTaintedNeverProcessed ==
    [][\A n \in NodeNames :
        /\ (GetStep(n) /\ nodes[n].exists /\ ~Tainted(n) /\ StepOK(n))
              => (ReturnsEmpty(n) /\ NoWrite /\ timers' = timers)
        /\ (nodes[n].exists /\ ~Tainted(n) /\ Tainted(n)')
              => (queue' = queue /\ timers' = timers /\ Controller' = Controller)
        /\ (LateTainted(n) /\ ~CreateEvent(n))
              => /\ ~InvocationStep(n)
                 /\ Forgotten(n)'
                 /\ nodes'[n] # nodes[n] => Controller' = Controller
        /\ (LateTainted(n) /\ StartStep) => n \in queue']_vars

(* C24 as stated: once a node is tainted after its no-op, no invocation for
   it ever follows, so its request stays forgotten as long as the node is
   not created again. *)
LateTaintedForgottenForever ==
    [][\A n \in NodeNames :
        (LateTainted(n) /\ ~CreationStep(n))
           => (Forgotten(n)' /\ ~InvocationStep(n))]_vars

\* a node was created without the target taint and reconciled, an update
\* (the second write of the store) then put the taint on it, and all its
\* target pods are Ready: nothing is scheduled for the node
LateTaintedNeverProcessedWitness ==
    \E n \in NodeNames :
        /\ LateTainted(n) /\ GateSatisfied(n)
        /\ revision = 2 /\ nodes[n].resourceVersion = 2

(* C25: the recheck loop stops when the node stops being a candidate.  The
   invocation that follows a 30-second recheck and finds the node deleted, or
   without the target taint, returns, when Get succeeds, the empty result:
   no error, no List, no Update, no write, and it schedules nothing; unless
   a re-add was pending already, the request is then forgotten, and a
   forgotten request stays forgotten until a create event for the node is
   delivered. *)
RecheckLoopStops ==
    [][\A n \in NodeNames :
        /\ (GetStep(n) /\ result[n] = ResultOf(30, "nil") /\ ~Tainted(n)
                /\ StepOK(n))
              => /\ ReturnsEmpty(n)
                 /\ NoWrite /\ writes'[n] = 0
                 /\ timers' = timers
                 /\ n \notin timers => Forgotten(n)'
        /\ (Forgotten(n) /\ result[n] = ResultOf(0, "nil") /\ ~CreateEvent(n))
              => (Forgotten(n)' /\ result'[n] = result[n])]_vars

\* a node created with two taints was rechecked (a recheck saw one pod
\* alone Ready); an external actor then took the target taint off it (the
\* second write of the store); the next invocation has returned the empty
\* result and nothing is scheduled
RecheckLoopStopsWitness ==
    \E n \in NodeNames :
        /\ soleReady # {}
        /\ nodes[n] = NewNode(<<O1>>, 2) /\ revision = 2
        /\ pc[n] = "idle" /\ result[n] = ResultOf(0, "nil") /\ writes[n] = 0
        /\ Forgotten(n)

====
